---- MODULE Spec2Model ----
(***************************************************************************)
(* Model of src/src/index.js: an Express application with three scraping   *)
(* routes.  Each route handler waits a fixed delay, runs one pipeline      *)
(* (launch a browser, open a page, navigate, wait for a readiness          *)
(* selector, evaluate a DOM-reading function in the page, close the        *)
(* browser) and answers with JSON.                                         *)
(*                                                                         *)
(* Strings are sequences of one-character strings, so that trim() and the  *)
(* identifier regular expressions are computed character by character.     *)
(* Two specifications are given: Spec interleaves the asynchronous route   *)
(* handlers of NumReqs requests; SpecExtract applies the three in-page     *)
(* evaluation functions to bounded DOM inputs.                             *)
(***************************************************************************)
EXTENDS Integers, Sequences, FiniteSets, TLC

VARIABLES
    production,   \* process.env.NODE_ENV === 'production'
    pc,           \* per request: the await the handler is suspended at
    route,        \* per request: which route handler runs
    browser,      \* per request: the pipeline's local `const browser`
    browsers,     \* every browser puppeteer.launch() has produced: id -> state
    page,         \* per request: the DOM the page shows once goto() resolved
    pending,      \* per request: the completion (return / throw) held while finally runs
    failedAt,     \* per request: the stage whose call threw ("none" if none did)
    responses,    \* per request: the HTTP responses sent, in order
    kind,         \* SpecExtract: which evaluation function is applied
    dom,          \* SpecExtract: the DOM it is applied to
    rec           \* SpecExtract: the value page.evaluate() returned

vars == <<production, pc, route, browser, browsers, page, pending, failedAt,
          responses, kind, dom, rec>>

pipelineVars == <<production, pc, route, browser, browsers, page, pending,
                  failedAt, responses>>

extractVars == <<kind, dom, rec>>

-----------------------------------------------------------------------------
(* Bounds of the model *)

NumReqs == 2          \* concurrently in-flight requests
MaxNodes == 2         \* length of the element lists of a DOM
MaxSegs == 3          \* an href is a concatenation of at most MaxSegs segments
MaxParamSegs == 2     \* a :chapterId is a concatenation of at most MaxParamSegs segments

Reqs == 1..NumReqs

-----------------------------------------------------------------------------
(* JavaScript values *)

\* null and undefined: one-element sequences whose element is no character,
\* so they differ from every string.
Null == <<"null">>
Undefined == <<"undefined">>

\* The operand of `||` is replaced by the right-hand side when it is falsy.
Falsy(v) == v \in {Undefined, Null, <<>>}

Or(v, fallback) == IF Falsy(v) THEN fallback ELSE v

IsString(v) == v # Null /\ v # Undefined

\* String.prototype.trim strips white space and line terminators at both ends.
WhiteSpace == {" ", "\t", "\n", "\r"}

RECURSIVE TrimStart(_)
TrimStart(s) ==
    IF s # <<>> /\ Head(s) \in WhiteSpace THEN TrimStart(Tail(s)) ELSE s

RECURSIVE TrimEnd(_)
TrimEnd(s) ==
    IF s # <<>> /\ s[Len(s)] \in WhiteSpace
    THEN TrimEnd(SubSeq(s, 1, Len(s) - 1))
    ELSE s

Trim(s) == TrimEnd(TrimStart(s))

-----------------------------------------------------------------------------
(* The DOM as the evaluation functions read it *)

\* querySelector() found no element.
NoElem == [exists |-> FALSE]

TextElem(s) == [exists |-> TRUE, textContent |-> s]

\* An element carrying one attribute of interest; value Null when the
\* attribute is missing (getAttribute returns null).
AttrElem(v) == [exists |-> TRUE, attr |-> v]

\* TextOr without its `|| fallback`.
TextOrWithoutFallback(el, fallback) ==
    IF el.exists THEN Trim(el.textContent) ELSE Undefined

\* el?.textContent?.trim() || fallback
TextOr(el, fallback) ==
    Or(IF el.exists THEN Trim(el.textContent) ELSE Undefined, fallback)

\* el?.getAttribute(name) || fallback
AttrOr(el, fallback) ==
    Or(IF el.exists THEN el.attr ELSE Undefined, fallback)

\* el?.getAttribute(name)
AttrOf(el) == IF el.exists THEN el.attr ELSE Undefined

-----------------------------------------------------------------------------
(* The identifier regular expressions /title\/(.*?)\/?$/ and               *)
(* /chapter\/(.*?)\/?$/ as String.prototype.match evaluates them.          *)

TitleSlash == <<"t", "i", "t", "l", "e", "/">>
ChapterSlash == <<"c", "h", "a", "p", "t", "e", "r", "/">>

\* `.` matches every character but a line terminator.
LineTerminator == {"\n", "\r"}

\* (.*?)\/?$ from position `from`: the lazy group grows one character at a
\* time until the rest of the input is "" or "/".
RECURSIVE LazyCapture(_, _, _)
LazyCapture(s, from, k) ==
    LET rest == SubSeq(s, from + k, Len(s))
    IN  IF rest = <<>> \/ rest = <<"/">>
        THEN SubSeq(s, from, from + k - 1)
        ELSE IF s[from + k] \in LineTerminator
             THEN Null
             ELSE LazyCapture(s, from, k + 1)

\* The leftmost position at which the whole pattern matches decides; the
\* result is the first capture group, or Null when match() returns null.
RECURSIVE MatchFrom(_, _, _)
MatchFrom(lit, s, i) ==
    IF i + Len(lit) - 1 > Len(s)
    THEN Null
    ELSE IF SubSeq(s, i, i + Len(lit) - 1) = lit
         THEN LET c == LazyCapture(s, i + Len(lit), 0)
              IN  IF c # Null THEN c ELSE MatchFrom(lit, s, i + 1)
         ELSE MatchFrom(lit, s, i + 1)

MatchId(lit, s) == MatchFrom(lit, s, 1)

-----------------------------------------------------------------------------
(* The fallback markers of the evaluation functions *)

UnknownTitle == <<"U", "n", "k", "n", "o", "w", "n", " ", "T", "i", "t", "l", "e">>
NoDescription == <<"N", "o", " ", "d", "e", "s", "c", "r", "i", "p", "t", "i", "o", "n",
                   " ", "a", "v", "a", "i", "l", "a", "b", "l", "e">>
UnknownAuthor == <<"U", "n", "k", "n", "o", "w", "n", " ", "A", "u", "t", "h", "o", "r">>
NoRating == <<"N", "o", " ", "r", "a", "t", "i", "n", "g">>
Unknown == <<"U", "n", "k", "n", "o", "w", "n">>
NoTitle == <<"N", "o", " ", "t", "i", "t", "l", "e">>
UnknownDate == <<"U", "n", "k", "n", "o", "w", "n", " ", "d", "a", "t", "e">>
UnknownChapter == <<"U", "n", "k", "n", "o", "w", "n", " ", "C", "h", "a", "p", "t", "e", "r">>
Hash == <<"#">>

-----------------------------------------------------------------------------
(* searchManga: the function evaluated in the page *)

\* The callback mapped over the .manga-card elements.
SearchCard(el) ==
    LET title == TextOr(el.title, UnknownTitle)
        url == AttrOr(el.a, Hash)
        thumbnail == AttrOr(el.thumbnail, Null)
        latestChapter == TextOr(el.latest_chapter, <<>>)
        rating == TextOr(el.rating, <<>>)
        match == MatchId(TitleSlash, url)
        mangaId == IF match # Null THEN match ELSE <<>>
    IN  [title |-> title,
         manga_id |-> mangaId,
         image |-> thumbnail,
         latest_chapter |-> latestChapter,
         rating |-> rating]

SearchEvaluate(d) == [i \in 1..Len(d.cards) |-> SearchCard(d.cards[i])]

-----------------------------------------------------------------------------
(* scrapeMangaDetails: the function evaluated in the page *)

\* The callback mapped over the .chapter-item elements.
ChapterItem(el) ==
    [number |-> TextOr(el.number, Unknown),
     title |-> TextOr(el.title, NoTitle),
     uploadDate |-> TextOr(el.uploadDate, UnknownDate),
     url |-> AttrOr(el.a, Hash)]

DetailEvaluate(d) ==
    [title |-> TextOr(d.title, UnknownTitle),
     image |-> AttrOr(d.cover, Null),
     description |-> TextOr(d.description, NoDescription),
     author |-> TextOr(d.author, UnknownAuthor),
     genres |-> [i \in 1..Len(d.genres) |-> Trim(d.genres[i].textContent)],
     rating |-> TextOr(d.rating, NoRating),
     chapters |-> [i \in 1..Len(d.chapters) |-> ChapterItem(d.chapters[i])]]

-----------------------------------------------------------------------------
(* getChapterData: the function evaluated in the page *)

\* PageImage numbering the pages by the 0-based index.
PageImageZeroBased(el, index) ==
    [pageNumber |-> index,
     imageUrl |-> Or(Or(el.src, el.dataSrc), Null)]

\* The callback mapped over the .page-image elements; index is 0-based.
PageImage(el, index) ==
    [pageNumber |-> index + 1,
     imageUrl |-> Or(Or(el.src, el.dataSrc), Null)]

\* ChapterLink with the search call site's absent value.
ChapterLinkEmptyString(link) ==
    IF Falsy(link)
    THEN <<>>
    ELSE LET m == MatchId(ChapterSlash, link)
         IN  IF m # Null THEN m ELSE <<>>

\* prevChapter / nextChapter from the link's href.
ChapterLink(link) ==
    IF Falsy(link)
    THEN Null
    ELSE LET m == MatchId(ChapterSlash, link)
         IN  IF m # Null THEN m ELSE Null

ChapterEvaluate(d) ==
    [title |-> TextOr(d.title, UnknownChapter),
     images |-> [i \in 1..Len(d.images) |-> PageImage(d.images[i], i - 1)],
     prev_chapter |-> ChapterLink(AttrOf(d.prev)),
     next_chapter |-> ChapterLink(AttrOf(d.next))]

Evaluate(rt, d) ==
    CASE rt = "search" -> SearchEvaluate(d)
      [] rt = "detail" -> DetailEvaluate(d)
      [] rt = "read" -> ChapterEvaluate(d)

-----------------------------------------------------------------------------
(* decodeURIComponent, applied to :chapterId by the /read handler *)

Digits == <<"0", "1", "2", "3", "4", "5", "6", "7", "8", "9">>
Upper == <<"A", "B", "C", "D", "E", "F", "G", "H", "I", "J", "K", "L", "M",
           "N", "O", "P", "Q", "R", "S", "T", "U", "V", "W", "X", "Y", "Z">>
Lower == <<"a", "b", "c", "d", "e", "f", "g", "h", "i", "j", "k", "l", "m",
           "n", "o", "p", "q", "r", "s", "t", "u", "v", "w", "x", "y", "z">>

IndexOf(c, table) == CHOOSE i \in 1..Len(table) : table[i] = c

Occurs(c, table) == \E i \in 1..Len(table) : table[i] = c

\* The code point of an unescaped character of a path parameter.
CharCode(c) ==
    IF Occurs(c, Digits) THEN 47 + IndexOf(c, Digits)
    ELSE IF Occurs(c, Upper) THEN 64 + IndexOf(c, Upper)
    ELSE IF Occurs(c, Lower) THEN 96 + IndexOf(c, Lower)
    ELSE IF c = "-" THEN 45
    ELSE IF c = "." THEN 46
    ELSE 95

HexDigits == <<"0", "1", "2", "3", "4", "5", "6", "7", "8", "9",
               "A", "B", "C", "D", "E", "F">>
LowerHexDigits == <<"a", "b", "c", "d", "e", "f">>

IsHex(c) == Occurs(c, HexDigits) \/ Occurs(c, LowerHexDigits)

HexVal(c) ==
    IF Occurs(c, HexDigits)
    THEN IndexOf(c, HexDigits) - 1
    ELSE IndexOf(c, LowerHexDigits) + 9

\* s starts with an escape %XX.
IsEscape(s) == Len(s) >= 3 /\ s[1] = "%" /\ IsHex(s[2]) /\ IsHex(s[3])

EscapeByte(s) == 16 * HexVal(s[2]) + HexVal(s[3])

\* The number of octets of the UTF-8 sequence a leading octet announces
\* (0: the octet cannot lead a sequence).
Utf8Length(b) ==
    IF b < 128 THEN 1
    ELSE IF b >= 192 /\ b < 224 THEN 2
    ELSE IF b >= 224 /\ b < 240 THEN 3
    ELSE IF b >= 240 /\ b < 248 THEN 4
    ELSE 0

\* The n - 1 continuation escapes that follow a leading octet, folded into
\* the code point; -1 when one of them is missing or is no continuation.
RECURSIVE Continuation(_, _, _)
Continuation(s, n, acc) ==
    IF n = 0 THEN acc
    ELSE IF ~IsEscape(s) THEN -1
    ELSE LET b == EscapeByte(s)
         IN  IF b < 128 \/ b >= 192
             THEN -1
             ELSE Continuation(SubSeq(s, 4, Len(s)), n - 1, acc * 64 + (b - 128))

\* The smallest code point a sequence of n octets may encode.
Utf8Min(n) == IF n = 2 THEN 128 ELSE IF n = 3 THEN 2048 ELSE 65536

URIError == [ok |-> FALSE]

\* The decoded string as a sequence of code points, or URIError.
RECURSIVE decodeURIComponent(_)
decodeURIComponent(s) ==
    IF s = <<>> THEN [ok |-> TRUE, value |-> <<>>]
    ELSE IF Head(s) # "%"
    THEN LET rest == decodeURIComponent(Tail(s))
         IN  IF rest.ok
             THEN [ok |-> TRUE, value |-> <<CharCode(Head(s))>> \o rest.value]
             ELSE URIError
    ELSE IF ~IsEscape(s) THEN URIError
    ELSE LET b == EscapeByte(s)
             n == Utf8Length(b)
             lead == IF n = 1 THEN b
                     ELSE IF n = 2 THEN b - 192
                     ELSE IF n = 3 THEN b - 224
                     ELSE b - 240
             cp == IF n = 0 THEN -1
                   ELSE Continuation(SubSeq(s, 4, Len(s)), n - 1, lead)
             valid == /\ cp >= 0
                      /\ n > 1 => cp >= Utf8Min(n)
                      /\ cp <= 1114111
                      /\ ~(cp >= 55296 /\ cp <= 57343)
             rest == decodeURIComponent(SubSeq(s, 3 * n + 1, Len(s)))
         IN  IF valid /\ rest.ok
             THEN [ok |-> TRUE, value |-> <<cp>> \o rest.value]
             ELSE URIError

-----------------------------------------------------------------------------
(* Inputs of the request pipelines *)

\* Concatenations of at most n segments.
RECURSIVE Concats(_, _)
Concats(segs, n) ==
    IF n = 0 THEN {<<>>}
    ELSE LET shorter == Concats(segs, n - 1)
         IN  shorter \cup {s \o g : s \in shorter, g \in segs}

\* :chapterId as Express hands it to the /read handler.
ParamSegs ==
    {<<"a">>, <<"%">>, <<"%", "2", "F">>, <<"%", "C", "3">>, <<"%", "A", "9">>,
     <<"%", "E", "D">>}

ChapterIds == Concats(ParamSegs, MaxParamSegs)

\* Whether decodeURIComponent returns (TRUE) or throws (FALSE), over the
\* parameters a request may carry.
DecodeOutcomes == {decodeURIComponent(chapterId).ok : chapterId \in ChapterIds}

Routes == {"search", "detail", "read"}

PaddedX == <<" ", "x", " ">>
Src == <<"u">>

FullCard ==
    [title |-> TextElem(PaddedX),
     a |-> AttrElem(<<"/">> \o TitleSlash \o <<"a">>),
     thumbnail |-> AttrElem(Src),
     latest_chapter |-> TextElem(PaddedX),
     rating |-> TextElem(PaddedX)]

BareCard ==
    [title |-> NoElem, a |-> NoElem, thumbnail |-> NoElem,
     latest_chapter |-> NoElem, rating |-> NoElem]

FullItem ==
    [number |-> TextElem(PaddedX), title |-> TextElem(PaddedX),
     uploadDate |-> TextElem(PaddedX), a |-> AttrElem(Src)]

BareItem ==
    [number |-> NoElem, title |-> NoElem, uploadDate |-> NoElem, a |-> NoElem]

FullDetail ==
    [container |-> TRUE,
     title |-> TextElem(PaddedX), description |-> TextElem(PaddedX),
     author |-> TextElem(PaddedX), genres |-> <<TextElem(PaddedX)>>,
     rating |-> TextElem(PaddedX), cover |-> AttrElem(Src),
     chapters |-> <<FullItem>>]

FullChapter ==
    [container |-> TRUE,
     title |-> TextElem(PaddedX),
     images |-> <<[src |-> Src, dataSrc |-> Null]>>,
     prev |-> AttrElem(ChapterSlash \o <<"a">>),
     next |-> NoElem]

\* The DOMs a navigation may end on: with and without the readiness selector.
Pages(rt) ==
    CASE rt = "search" -> {[cards |-> <<>>], [cards |-> <<FullCard>>]}
      [] rt = "detail" -> {FullDetail, [FullDetail EXCEPT !.container = FALSE]}
      [] rt = "read" -> {FullChapter, [FullChapter EXCEPT !.container = FALSE]}

\* Whether the selector the pipeline waits for matches an element of the DOM:
\* '.manga-card', '.manga-container', '.page-container'.
ReadinessSelectorMatches(rt, d) ==
    IF rt = "search" THEN Len(d.cards) > 0 ELSE d.container

-----------------------------------------------------------------------------
(* State of the request pipelines *)

NoBrowser == 0
NoPage == [none |-> TRUE]

\* A browser process: "none" before puppeteer.launch() produced it, "open"
\* until close() is called on it, "closing" while that call is pending,
\* "closed" once it resolved and "closeFailed" once it rejected.
NotLaunched == [state |-> "none", owner |-> 0, closeCalls |-> 0]
NoCompletion == [type |-> "none"]

TrySteps ==
    {"newPage", "setViewport", "setUserAgent", "goto", "waitForSelector", "evaluate"}

InitPipeline ==
    /\ production \in BOOLEAN
    /\ pc = [r \in Reqs |-> "idle"]
    /\ route = [r \in Reqs |-> "none"]
    /\ browser = [r \in Reqs |-> NoBrowser]
    /\ browsers = [b \in Reqs |-> NotLaunched]
    /\ page = [r \in Reqs |-> NoPage]
    /\ pending = [r \in Reqs |-> NoCompletion]
    /\ failedAt = [r \in Reqs |-> "none"]
    /\ responses = [r \in Reqs |-> <<>>]

InitExtractIdle ==
    /\ kind = "none"
    /\ dom = NoPage
    /\ rec = NoCompletion

Init == InitPipeline /\ InitExtractIdle

-----------------------------------------------------------------------------
(* Route handlers: the response *)

\* ErrorBody with the bare {error} payload on every route.
ErrorBodyBare(rt) ==
    CASE rt = "search" -> [error |-> "An error occurred during the search."]
      [] rt = "read" -> [error |-> "An error occurred while fetching the chapter."]
      [] rt = "detail" -> [error |-> "An error occurred while fetching manga details."]

ErrorBody(rt) ==
    CASE rt = "search" -> [error |-> "An error occurred during the search."]
      [] rt = "read" -> [error |-> "An error occurred while fetching the chapter.",
                         images |-> <<>>,
                         prev_chapter |-> Null,
                         next_chapter |-> Null]
      [] rt = "detail" -> [error |-> "An error occurred while fetching manga details."]

SuccessBody(rt, value) ==
    IF rt = "search" THEN [results |-> value] ELSE value

\* What the handler's try / catch sends once the pipeline has settled.
Reply(rt, completion) ==
    IF completion.type = "return"
    THEN [status |-> 200, body |-> SuccessBody(rt, completion.value)]
    ELSE [status |-> 500, body |-> ErrorBody(rt)]

Thrown == [type |-> "throw"]

Respond(r, completion) ==
    /\ responses' = [responses EXCEPT ![r] = Append(@, Reply(route[r], completion))]
    /\ pc' = [pc EXCEPT ![r] = "done"]

\* A request arrives; its handler runs up to `await delay(...)`.
Request(r) ==
    /\ pc[r] = "idle"
    /\ \E rt \in Routes : route' = [route EXCEPT ![r] = rt]
    /\ pc' = [pc EXCEPT ![r] = "delay"]
    /\ UNCHANGED <<extractVars, production, browser, browsers, page, pending, failedAt, responses>>

\* launchBrowser() up to its first await: in production it reads
\* `chrome.executablePath`, and no binding named chrome exists (the module is
\* required as chromium), so the call rejects with a ReferenceError before
\* puppeteer.launch is reached.
launchBrowser(r) ==
    IF production
    THEN /\ failedAt' = [failedAt EXCEPT ![r] = "launch"]
         /\ Respond(r, Thrown)
    ELSE /\ pc' = [pc EXCEPT ![r] = "launch"]
         /\ UNCHANGED <<failedAt, responses>>

\* After the delay, /search/:query and /detail/:mangaId call their pipeline.
SearchRoute(r) ==
    /\ pc[r] = "delay"
    /\ route[r] = "search"
    /\ launchBrowser(r)
    /\ UNCHANGED <<extractVars, production, route, browser, browsers, page, pending>>

DetailRoute(r) ==
    /\ pc[r] = "delay"
    /\ route[r] = "detail"
    /\ launchBrowser(r)
    /\ UNCHANGED <<extractVars, production, route, browser, browsers, page, pending>>

\* /read/:chapterId percent-decodes the parameter first.
ReadRoute(r) ==
    /\ pc[r] = "delay"
    /\ route[r] = "read"
    /\ \E decodes \in DecodeOutcomes :
          IF decodes
          THEN launchBrowser(r)
          ELSE /\ failedAt' = [failedAt EXCEPT ![r] = "decode"]
               /\ Respond(r, Thrown)
    /\ UNCHANGED <<extractVars, production, route, browser, browsers, page, pending>>

-----------------------------------------------------------------------------
(* The pipelines scrapeMangaDetails, searchManga and getChapterData.  The  *)
(* three functions differ in the readiness selector and in the function    *)
(* they evaluate in the page; route[r] selects between them.               *)

\* NewBrowser handing every pipeline one module-level browser.
SharedBrowser(r) == 1

\* The object puppeteer.launch() resolves to: a new browser on every call,
\* named after the request whose pipeline launched it.
NewBrowser(r) == r

\* puppeteer.launch() resolved: `const browser` is bound, the try block is
\* entered and browser.newPage() is called.
LaunchResolved(r) ==
    /\ pc[r] = "launch"
    /\ browser' = [browser EXCEPT ![r] = NewBrowser(r)]
    /\ browsers' = [browsers EXCEPT ![NewBrowser(r)] =
                        [state |-> "open", owner |-> r, closeCalls |-> 0]]
    /\ pc' = [pc EXCEPT ![r] = "newPage"]
    /\ UNCHANGED <<extractVars, production, route, page, pending, failedAt, responses>>

\* puppeteer.launch() rejected: the pipeline rejects outside its try block
\* and the handler's catch answers.
LaunchRejected(r) ==
    /\ pc[r] = "launch"
    /\ failedAt' = [failedAt EXCEPT ![r] = "launch"]
    /\ Respond(r, Thrown)
    /\ UNCHANGED <<extractVars, production, route, browser, browsers, page, pending>>

\* A call on the browser or its page resolves only while the browser is open.
Usable(r) == browsers[browser[r]].state = "open"

NewPage(r) ==
    /\ pc[r] = "newPage"
    /\ Usable(r)
    /\ pc' = [pc EXCEPT ![r] = "setViewport"]
    /\ UNCHANGED <<extractVars, production, route, browser, browsers, page, pending, failedAt,
                   responses>>

SetViewport(r) ==
    /\ pc[r] = "setViewport"
    /\ Usable(r)
    /\ pc' = [pc EXCEPT ![r] = "setUserAgent"]
    /\ UNCHANGED <<extractVars, production, route, browser, browsers, page, pending, failedAt,
                   responses>>

SetUserAgent(r) ==
    /\ pc[r] = "setUserAgent"
    /\ Usable(r)
    /\ pc' = [pc EXCEPT ![r] = "goto"]
    /\ UNCHANGED <<extractVars, production, route, browser, browsers, page, pending, failedAt,
                   responses>>

\* Navigation settled within its timeout on some DOM.
Goto(r) ==
    /\ pc[r] = "goto"
    /\ Usable(r)
    /\ \E d \in Pages(route[r]) : page' = [page EXCEPT ![r] = d]
    /\ pc' = [pc EXCEPT ![r] = "waitForSelector"]
    /\ UNCHANGED <<extractVars, production, route, browser, browsers, pending, failedAt, responses>>

\* waitForSelector resolves only when the selector matches an element.
WaitForSelector(r) ==
    /\ pc[r] = "waitForSelector"
    /\ Usable(r)
    /\ ReadinessSelectorMatches(route[r], page[r])
    /\ pc' = [pc EXCEPT ![r] = "evaluate"]
    /\ UNCHANGED <<extractVars, production, route, browser, browsers, page, pending, failedAt,
                   responses>>

\* The finally block: browser.close() is called; the completion of the try /
\* catch statement is held until the call settles.
Finally(r, completion) ==
    /\ pending' = [pending EXCEPT ![r] = completion]
    /\ browsers' = [browsers EXCEPT ![browser[r]] =
                        [@ EXCEPT !.state = "closing", !.closeCalls = @ + 1]]
    /\ pc' = [pc EXCEPT ![r] = "close"]

\* page.evaluate() resolved: `return` leaves the try block through finally.
PageEvaluate(r) ==
    /\ pc[r] = "evaluate"
    /\ Usable(r)
    /\ Finally(r, [type |-> "return", value |-> Evaluate(route[r], page[r])])
    /\ UNCHANGED <<extractVars, production, route, browser, page, failedAt, responses>>

\* Catch closing the browser in the catch block and again in finally.
CatchClosingTwice(r) ==
    /\ pc[r] \in TrySteps
    /\ failedAt' = [failedAt EXCEPT ![r] = pc[r]]
    /\ pending' = [pending EXCEPT ![r] = Thrown]
    /\ browsers' = [browsers EXCEPT ![browser[r]] =
                        [@ EXCEPT !.state = "closing", !.closeCalls = @ + 2]]
    /\ pc' = [pc EXCEPT ![r] = "close"]
    /\ UNCHANGED <<extractVars, production, route, browser, page, responses>>

\* Catch rethrowing to the handler with no finally block in between.
CatchWithoutFinally(r) ==
    /\ pc[r] \in TrySteps
    /\ failedAt' = [failedAt EXCEPT ![r] = pc[r]]
    /\ Respond(r, Thrown)
    /\ UNCHANGED <<extractVars, production, route, browser, browsers, page, pending>>

\* The call awaited inside the try block rejected (a timeout, a crashed or
\* closed browser, an exception in the page): the catch block logs and
\* rethrows, which leaves through finally.
Catch(r) ==
    /\ pc[r] \in TrySteps
    /\ failedAt' = [failedAt EXCEPT ![r] = pc[r]]
    /\ Finally(r, Thrown)
    /\ UNCHANGED <<extractVars, production, route, browser, page, responses>>

\* browser.close() resolved: the held completion takes effect and the route
\* handler answers.
CloseResolved(r) ==
    /\ pc[r] = "close"
    /\ browsers' = [browsers EXCEPT ![browser[r]] = [@ EXCEPT !.state = "closed"]]
    /\ Respond(r, pending[r])
    /\ UNCHANGED <<extractVars, production, route, browser, page, pending, failedAt>>

\* CloseRejected with the rejection of close() swallowed.
CloseRejectedSwallowed(r) ==
    /\ pc[r] = "close"
    /\ browsers' = [browsers EXCEPT ![browser[r]] = [@ EXCEPT !.state = "closeFailed"]]
    /\ failedAt' = [failedAt EXCEPT ![r] = IF @ = "none" THEN "close" ELSE @]
    /\ Respond(r, pending[r])
    /\ UNCHANGED <<extractVars, production, route, browser, page, pending>>

\* browser.close() rejected: the rejection replaces the held completion.
CloseRejected(r) ==
    /\ pc[r] = "close"
    /\ browsers' = [browsers EXCEPT ![browser[r]] = [@ EXCEPT !.state = "closeFailed"]]
    /\ failedAt' = [failedAt EXCEPT ![r] = IF @ = "none" THEN "close" ELSE @]
    /\ Respond(r, Thrown)
    /\ UNCHANGED <<extractVars, production, route, browser, page, pending>>

Next ==
    \E r \in Reqs :
          \/ Request(r)
          \/ SearchRoute(r)
          \/ DetailRoute(r)
          \/ ReadRoute(r)
          \/ LaunchResolved(r)
          \/ LaunchRejected(r)
          \/ NewPage(r)
          \/ SetViewport(r)
          \/ SetUserAgent(r)
          \/ Goto(r)
          \/ WaitForSelector(r)
          \/ PageEvaluate(r)
          \/ Catch(r)
          \/ CloseResolved(r)
          \/ CloseRejected(r)

Spec == Init /\ [][Next]_vars

-----------------------------------------------------------------------------
(* The evaluation functions applied to bounded DOMs *)

\* Sequences over `elems` of length at most n.
RECURSIVE SeqsUpTo(_, _)
SeqsUpTo(elems, n) ==
    IF n = 0 THEN {<<>>}
    ELSE LET shorter == SeqsUpTo(elems, n - 1)
         IN  shorter \cup {Append(s, e) : s \in shorter, e \in elems}

\* Elements read through textContent: missing, empty, blank, padded text.
Texts == {NoElem, TextElem(<<>>), TextElem(<<" ">>), TextElem(PaddedX)}

\* Elements read through src: missing element, missing attribute, empty, set.
Srcs == {NoElem, AttrElem(Null), AttrElem(<<>>), AttrElem(Src)}

HrefSegs == {TitleSlash, ChapterSlash, <<"/">>, <<"a">>, <<"\n">>}

Hrefs == Concats(HrefSegs, MaxSegs)

\* Elements read through href.
Links == {NoElem, AttrElem(Null)} \cup {AttrElem(h) : h \in Hrefs}

SampleLinks ==
    {NoElem, AttrElem(Null), AttrElem(<<>>), AttrElem(TitleSlash \o <<"a">>)}

SearchCards ==
    {[FullCard EXCEPT !.a = l] : l \in Links}
    \cup [title : Texts, a : SampleLinks, thumbnail : Srcs,
          latest_chapter : Texts, rating : Texts]

SearchDoms ==
    {[cards |-> <<c>>] : c \in SearchCards}
    \cup {[cards |-> s] : s \in SeqsUpTo({FullCard, BareCard}, MaxNodes)}

GenreElems == {TextElem(<<>>), TextElem(PaddedX), TextElem(<<"y">>)}

ChapterItems == [number : Texts, title : Texts, uploadDate : Texts, a : SampleLinks]

DetailDoms ==
    [container : {TRUE}, title : Texts, description : Texts, author : Texts,
     genres : {<<>>}, rating : Texts, cover : Srcs, chapters : {<<>>}]
    \cup {[FullDetail EXCEPT !.genres = g, !.chapters = c] :
             g \in SeqsUpTo(GenreElems, MaxNodes),
             c \in SeqsUpTo({FullItem, BareItem}, MaxNodes)}
    \cup {[FullDetail EXCEPT !.chapters = <<i>>] : i \in ChapterItems}

\* .page-image elements: src and data-src each missing, empty or set.
ImageElems ==
    [src : {Null, <<>>, <<"u">>}, dataSrc : {Null, <<>>, <<"v">>}]

SampleChapterLinks ==
    {NoElem, AttrElem(Null), AttrElem(<<>>), AttrElem(<<"a">>),
     AttrElem(ChapterSlash \o <<"a">>)}

ChapterDoms ==
    {[FullChapter EXCEPT !.images = s] : s \in SeqsUpTo(ImageElems, MaxNodes)}
    \cup [container : {TRUE}, title : Texts, images : {<<>>},
          prev : SampleChapterLinks, next : SampleChapterLinks]
    \cup {[FullChapter EXCEPT !.prev = l] : l \in Links}
    \cup {[FullChapter EXCEPT !.next = l] : l \in Links}

Doms(rt) ==
    CASE rt = "search" -> SearchDoms
      [] rt = "detail" -> DetailDoms
      [] rt = "read" -> ChapterDoms

InitExtract ==
    /\ InitPipeline
    /\ production = FALSE
    /\ kind \in Routes
    /\ dom \in Doms(kind)
    /\ rec = NoCompletion

RunSearchEvaluate ==
    /\ kind = "search"
    /\ rec = NoCompletion
    /\ rec' = [type |-> "return", value |-> SearchEvaluate(dom)]
    /\ UNCHANGED <<pipelineVars, kind, dom>>

RunDetailEvaluate ==
    /\ kind = "detail"
    /\ rec = NoCompletion
    /\ rec' = [type |-> "return", value |-> DetailEvaluate(dom)]
    /\ UNCHANGED <<pipelineVars, kind, dom>>

RunChapterEvaluate ==
    /\ kind = "read"
    /\ rec = NoCompletion
    /\ rec' = [type |-> "return", value |-> ChapterEvaluate(dom)]
    /\ UNCHANGED <<pipelineVars, kind, dom>>

NextExtract == RunSearchEvaluate \/ RunDetailEvaluate \/ RunChapterEvaluate

SpecExtract == InitExtract /\ [][NextExtract]_vars

-----------------------------------------------------------------------------
(* Properties of the request pipelines (specification Spec) *)

Answered(r) == pc[r] = "done"

InFlight(r) == pc[r] \notin {"idle", "done"}

Launched(r) == browser[r] # NoBrowser

\* close() has been called on the browser and the call has settled.
Released(b) == browsers[b].state \in {"closed", "closeFailed"}

\* The fixed payload each route documents for a failed request.
FixedErrorPayload(rt) ==
    CASE rt = "search" -> [error |-> "An error occurred during the search."]
      [] rt = "detail" -> [error |-> "An error occurred while fetching manga details."]
      [] rt = "read" -> [error |-> "An error occurred while fetching the chapter.",
                         images |-> <<>>, prev_chapter |-> Null, next_chapter |-> Null]

\* C1: on each of the three routes, a request in which any stage threw
\* (browser launch, a call on the page, the selector wait, the in-page
\* evaluation, the decoding of :chapterId) is answered 500 with the route's
\* fixed payload, and a request in which nothing threw is answered 200 with
\* the record the evaluation returned (wrapped in {results} for search).
C1_FailureIs500SuccessIs200 ==
    \A r \in Reqs :
        Answered(r) =>
            /\ Len(responses[r]) = 1
            /\ failedAt[r] # "none" =>
                  responses[r][1] = [status |-> 500, body |-> FixedErrorPayload(route[r])]
            /\ failedAt[r] = "none" =>
                  /\ responses[r][1].status = 200
                  /\ responses[r][1].body =
                        IF route[r] = "search"
                        THEN [results |-> SearchEvaluate(page[r])]
                        ELSE Evaluate(route[r], page[r])

\* One request failed on the read route while waiting for the selector and
\* another one succeeded.
C1_Witness ==
    \E r1, r2 \in Reqs :
        /\ Answered(r1) /\ route[r1] = "read" /\ failedAt[r1] = "waitForSelector"
        /\ responses[r1][1].status = 500
        /\ Answered(r2) /\ failedAt[r2] = "none" /\ responses[r2][1].status = 200

\* C2: browser.close() is called exactly once on every exit path of a
\* pipeline that launched a browser: not before the try block is left, once
\* when it is left (by return or by a throw at any of its calls), never twice.
C2_ClosedExactlyOnce ==
    \A r \in Reqs :
        Launched(r) =>
            /\ browsers[browser[r]].closeCalls <= 1
            /\ pc[r] \in TrySteps => browsers[browser[r]].closeCalls = 0
            /\ pc[r] \in {"close", "done"} => browsers[browser[r]].closeCalls = 1

\* One pipeline left through a throw at goto, another one through return,
\* and each closed its browser.
C2_Witness ==
    \E r1, r2 \in Reqs :
        /\ Answered(r1) /\ failedAt[r1] = "goto"
        /\ browsers[browser[r1]].closeCalls = 1
        /\ Answered(r2) /\ failedAt[r2] = "none"
        /\ browsers[browser[r2]].closeCalls = 1

C4_EmptySearchIs200 ==
    \A r \in Reqs :
        /\ Answered(r)
        /\ route[r] = "search"
        /\ page[r] = [cards |-> <<>>]
        /\ failedAt[r] \in {"none", "waitForSelector"}
        => responses[r] = <<[status |-> 200, body |-> [results |-> <<>>]]>>

C10_CloseFailureIs500 ==
    \A r \in Reqs :
        Answered(r) /\ Launched(r) /\ browsers[browser[r]].state = "closeFailed" =>
            responses[r] = <<[status |-> 500, body |-> FixedErrorPayload(route[r])]>>

\* The evaluation had returned a record and close() then rejected.
C10_Witness ==
    \E r \in Reqs :
        /\ Answered(r)
        /\ pending[r].type = "return"
        /\ failedAt[r] = "close"
        /\ browsers[browser[r]].state = "closeFailed"
        /\ responses[r][1].status = 500

-----------------------------------------------------------------------------
(* Properties of the evaluation functions (specification SpecExtract) *)

Returned == rec.type = "return"

NonEmptyString(v) == IsString(v) /\ v # <<>>

NullOrNonEmptyString(v) == v = Null \/ NonEmptyString(v)

SearchKeys == {"title", "manga_id", "image", "latest_chapter", "rating"}
DetailKeys == {"title", "image", "description", "author", "genres", "rating", "chapters"}
DetailChapterKeys == {"number", "title", "uploadDate", "url"}
ChapterKeys == {"title", "images", "prev_chapter", "next_chapter"}
ImageKeys == {"pageNumber", "imageUrl"}

\* C5 as stated: in every record of the three extractors every key is
\* present, every string-typed field is a non-empty string and only
\* image / href-derived fields may be null.
C5_EveryStringFieldNonEmpty ==
    Returned =>
        /\ kind = "search" =>
              \A i \in 1..Len(rec.value) :
                  LET c == rec.value[i]
                  IN  /\ DOMAIN c = SearchKeys
                      /\ NonEmptyString(c.title)
                      /\ NonEmptyString(c.manga_id)
                      /\ NonEmptyString(c.latest_chapter)
                      /\ NonEmptyString(c.rating)
                      /\ NullOrNonEmptyString(c.image)
        /\ kind = "detail" =>
              /\ DOMAIN rec.value = DetailKeys
              /\ NonEmptyString(rec.value.title)
              /\ NonEmptyString(rec.value.description)
              /\ NonEmptyString(rec.value.author)
              /\ NonEmptyString(rec.value.rating)
              /\ NullOrNonEmptyString(rec.value.image)
              /\ \A i \in 1..Len(rec.value.genres) : NonEmptyString(rec.value.genres[i])
              /\ \A i \in 1..Len(rec.value.chapters) :
                    LET c == rec.value.chapters[i]
                    IN  /\ DOMAIN c = DetailChapterKeys
                        /\ NonEmptyString(c.number)
                        /\ NonEmptyString(c.title)
                        /\ NonEmptyString(c.uploadDate)
                        /\ NonEmptyString(c.url)
        /\ kind = "read" =>
              /\ DOMAIN rec.value = ChapterKeys
              /\ NonEmptyString(rec.value.title)
              /\ NullOrNonEmptyString(rec.value.prev_chapter)
              /\ NullOrNonEmptyString(rec.value.next_chapter)
              /\ \A i \in 1..Len(rec.value.images) :
                    /\ DOMAIN rec.value.images[i] = ImageKeys
                    /\ NullOrNonEmptyString(rec.value.images[i].imageUrl)

\* C5 as amended: every key is present; title, description, author, rating of
\* MangaDetail, the four fields of its chapters, and the titles of
\* SearchResult and ChapterData are non-empty strings; manga_id,
\* latest_chapter and rating of SearchResult and the entries of genres are
\* strings that may be empty; image and imageUrl are null or a non-empty
\* string; prev_chapter and next_chapter are null or a string.
C5_KeysPresentAndFallbacks ==
    Returned =>
        /\ kind = "search" =>
              \A i \in 1..Len(rec.value) :
                  LET c == rec.value[i]
                  IN  /\ DOMAIN c = SearchKeys
                      /\ NonEmptyString(c.title)
                      /\ IsString(c.manga_id)
                      /\ IsString(c.latest_chapter)
                      /\ IsString(c.rating)
                      /\ NullOrNonEmptyString(c.image)
        /\ kind = "detail" =>
              /\ DOMAIN rec.value = DetailKeys
              /\ NonEmptyString(rec.value.title)
              /\ NonEmptyString(rec.value.description)
              /\ NonEmptyString(rec.value.author)
              /\ NonEmptyString(rec.value.rating)
              /\ NullOrNonEmptyString(rec.value.image)
              /\ \A i \in 1..Len(rec.value.genres) : IsString(rec.value.genres[i])
              /\ \A i \in 1..Len(rec.value.chapters) :
                    LET c == rec.value.chapters[i]
                    IN  /\ DOMAIN c = DetailChapterKeys
                        /\ NonEmptyString(c.number)
                        /\ NonEmptyString(c.title)
                        /\ NonEmptyString(c.uploadDate)
                        /\ NonEmptyString(c.url)
        /\ kind = "read" =>
              /\ DOMAIN rec.value = ChapterKeys
              /\ NonEmptyString(rec.value.title)
              /\ rec.value.prev_chapter # Undefined
              /\ rec.value.next_chapter # Undefined
              /\ \A i \in 1..Len(rec.value.images) :
                    /\ DOMAIN rec.value.images[i] = ImageKeys
                    /\ NullOrNonEmptyString(rec.value.images[i].imageUrl)

\* A card without a title element was given the fallback title while its
\* latest_chapter came out empty.
C5_Witness ==
    /\ Returned
    /\ kind = "search"
    /\ Len(rec.value) = 1
    /\ ~dom.cards[1].title.exists
    /\ rec.value[1].title = UnknownTitle
    /\ rec.value[1].latest_chapter = <<>>

-----------------------------------------------------------------------------
(* Identifier parsing *)

EndsWith(s, suffix) ==
    /\ Len(s) >= Len(suffix)
    /\ SubSeq(s, Len(s) - Len(suffix) + 1, Len(s)) = suffix

\* s without one trailing slash.
DropTrailingSlash(s) ==
    IF EndsWith(s, <<"/">>) THEN SubSeq(s, 1, Len(s) - 1) ELSE s

IsId(id) ==
    /\ id # <<>>
    /\ \A i \in 1..Len(id) : id[i] # "/" /\ id[i] \notin LineTerminator

\* h has the form ...<lit><id> or ...<lit><id>/ for the identifier id.
HasForm(h, lit, id) ==
    /\ IsId(id)
    /\ EndsWith(DropTrailingSlash(h), lit \o id)

\* The identifiers that can end an href.
Suffixes(h) == {SubSeq(h, i, Len(h)) : i \in 1..Len(h)}

\* C6: for every link href of the form .../title/<id> or .../title/<id>/ the
\* manga_id of the search result is exactly <id>.
C6_MangaIdIsTheId ==
    Returned /\ kind = "search" =>
        \A i \in 1..Len(rec.value) :
            LET a == dom.cards[i].a
            IN  a.exists /\ IsString(a.attr) =>
                    \A id \in Suffixes(DropTrailingSlash(a.attr)) :
                        HasForm(a.attr, TitleSlash, id) => rec.value[i].manga_id = id

\* The positions at which the pattern for `lit` matches in h: lit occurs there
\* and no line terminator follows it.
MatchPositions(lit, h) ==
    {i \in 1..Len(h) :
        /\ i + Len(lit) - 1 <= Len(h)
        /\ SubSeq(h, i, i + Len(lit) - 1) = lit
        /\ \A j \in (i + Len(lit))..Len(h) : h[j] \notin LineTerminator}

Min(S) == CHOOSE x \in S : \A y \in S : x <= y

\* What follows the first match of lit in h, without one trailing slash.
ParsedId(lit, h) ==
    LET i == Min(MatchPositions(lit, h))
    IN  DropTrailingSlash(SubSeq(h, i + Len(lit), Len(h)))

\* The link cannot be parsed: no element, no href, an empty href, or an href
\* the pattern does not match.
Unparsable(lit, a) ==
    \/ ~a.exists
    \/ Falsy(a.attr)
    \/ MatchPositions(lit, a.attr) = {}

\* C7: identifier parsing degrades to the absent value of its call site:
\* prev_chapter (next_chapter) is null when the .prev-chapter (.next-chapter)
\* link is absent or its href cannot be parsed as chapter/<id>, and the parsed
\* identifier otherwise; manga_id is the empty string when the card's link is
\* missing or its href does not match title/<id>.
C7_AbsentValuePerCallSite ==
    Returned =>
        /\ kind = "read" =>
              /\ rec.value.prev_chapter =
                    IF Unparsable(ChapterSlash, dom.prev)
                    THEN Null
                    ELSE ParsedId(ChapterSlash, dom.prev.attr)
              /\ rec.value.next_chapter =
                    IF Unparsable(ChapterSlash, dom.next)
                    THEN Null
                    ELSE ParsedId(ChapterSlash, dom.next.attr)
        /\ kind = "search" =>
              \A i \in 1..Len(rec.value) :
                  Unparsable(TitleSlash, dom.cards[i].a) => rec.value[i].manga_id = <<>>

\* A previous-chapter link whose href does not contain chapter/ gave null, and
\* a next-chapter link with a parsable href gave its identifier.
C7_Witness ==
    /\ Returned
    /\ kind = "read"
    /\ dom.prev.exists
    /\ ~Falsy(dom.prev.attr)
    /\ MatchPositions(ChapterSlash, dom.prev.attr) = {}
    /\ rec.value.prev_chapter = Null
    /\ dom.next.exists
    /\ HasForm(dom.next.attr, ChapterSlash, <<"a">>)
    /\ rec.value.next_chapter = <<"a">>

\* The URL the image callback reads from a .page-image element.
ImageUrlOf(el) ==
    IF el.src \notin {Null, <<>>} THEN el.src
    ELSE IF el.dataSrc \notin {Null, <<>>} THEN el.dataSrc
    ELSE Null

\* C8: for N >= 0 .page-image elements, images has length N and its i-th
\* entry carries pageNumber i and the URL of the i-th element.
C8_PageNumbersFollowDomOrder ==
    Returned /\ kind = "read" =>
        /\ Len(rec.value.images) = Len(dom.images)
        /\ \A i \in 1..Len(dom.images) :
              /\ rec.value.images[i].pageNumber = i
              /\ rec.value.images[i].imageUrl = ImageUrlOf(dom.images[i])

\* Two images with different URLs were numbered 1 and 2 in DOM order.
C8_Witness ==
    /\ Returned
    /\ kind = "read"
    /\ Len(dom.images) = 2
    /\ ImageUrlOf(dom.images[1]) = <<"v">>
    /\ ImageUrlOf(dom.images[2]) = <<"u">>
    /\ rec.value.images[1] = [pageNumber |-> 1, imageUrl |-> <<"v">>]
    /\ rec.value.images[2] = [pageNumber |-> 2, imageUrl |-> <<"u">>]

====
